---- MODULE Spec2Model ----
(***************************************************************************)
(* A model of utils/common_func.py: the file helpers (read_json,           *)
(* read_file, read_csv, write_json, write_file, write_csv, get_extension   *)
(* and the two dispatch functions), the byte-size conversions and          *)
(* common_request.                                                         *)
(*                                                                         *)
(* A Python str is a sequence of one-character strings.  A Python value    *)
(* is a record [t |-> <type name>, v |-> <payload>].  A call's outcome is  *)
(* either a returned value or a raised exception.  The file system is      *)
(* seen through one path: `path` is the path all calls of a behaviour are  *)
(* made on and `file` is what is stored there.  Text I/O is modelled for   *)
(* a POSIX platform (os.linesep = "\n").                                   *)
(***************************************************************************)
EXTENDS Integers, Sequences, FiniteSets, TLC

VARIABLES path, file, last, prev, before, truncated, appended

vars == <<path, file, last, prev, before, truncated, appended>>

\* Records list their fields in the order TLC keeps them in, so that a record
\* value is never rearranged after it is built.

(***************************************************************************)
(* Bounds of the model.                                                    *)
(***************************************************************************)
MaxFileLen == 8
MaxTextLen == 3
MaxChunk == 2
MaxSize == 3

(***************************************************************************)
(* Characters and strings.                                                 *)
(***************************************************************************)
LF == "\n"
CR == "\r"
QUOTE == "\""
COMMA == ","
SPACE == " "

RECURSIVE Concat(_)
\* "".join(parts)
Concat(parts) ==
    IF parts = <<>> THEN <<>> ELSE Head(parts) \o Concat(Tail(parts))

\* s[i:] with a 1-based i
From(s, i) == IF i > Len(s) THEN <<>> ELSE SubSeq(s, i, Len(s))

\* s.rfind(c), 1-based, 0 when c does not occur
RFind(s, c) ==
    LET hits == {i \in 1..Len(s) : s[i] = c}
    IN IF hits = {} THEN 0 ELSE CHOOSE i \in hits : \A j \in hits : j <= i

(***************************************************************************)
(* Python values and call outcomes.                                        *)
(***************************************************************************)
PyStr(s) == [t |-> "str", v |-> s]
PyInt(n) == [t |-> "int", v |-> n]
PyBool(b) == [t |-> "bool", v |-> b]
PyList(xs) == [t |-> "list", v |-> xs]
PyDict(pairs) == [t |-> "dict", v |-> pairs]
PyNone == [t |-> "NoneType", v |-> <<>>]

\* a == b for two Python values: values of different types are unequal
PyEq(a, b) == a.t = b.t /\ a.v = b.v

Returned(v) == [kind |-> "return", value |-> v]
Raised(type, msg) == [kind |-> "raise", type |-> type, msg |-> msg]

Digit == <<"0", "1", "2", "3", "4", "5", "6", "7", "8", "9">>

RECURSIVE IntDigits(_)
\* str(n) for an int n >= 0
IntDigits(n) ==
    IF n < 10 THEN <<Digit[n + 1]>>
    ELSE IntDigits(n \div 10) \o <<Digit[(n % 10) + 1]>>

RECURSIVE repr(_)
RECURSIVE JoinReprs(_, _)
\* repr(obj); a str is taken to hold no quote, backslash or control character
repr(obj) ==
    CASE obj.t = "str" -> <<"'">> \o obj.v \o <<"'">>
      [] obj.t = "int" -> IntDigits(obj.v)
      [] obj.t = "bool" -> IF obj.v THEN <<"T", "r", "u", "e">>
                           ELSE <<"F", "a", "l", "s", "e">>
      [] obj.t = "NoneType" -> <<"N", "o", "n", "e">>
      [] obj.t = "list" -> <<"[">> \o JoinReprs(obj.v, FALSE) \o <<"]">>
      [] obj.t = "dict" -> <<"{">> \o JoinReprs(obj.v, TRUE) \o <<"}">>

\* the items of a list, or the key: value pairs of a dict, joined by ", "
JoinReprs(items, isDict) ==
    IF items = <<>> THEN <<>>
    ELSE LET one == IF isDict
                    THEN repr(Head(items)[1]) \o <<":", " ">> \o repr(Head(items)[2])
                    ELSE repr(Head(items))
         IN IF Len(items) = 1 THEN one
            ELSE one \o <<",", " ">> \o JoinReprs(Tail(items), isDict)

\* str(data): a str is itself, any other value is written as its repr
str(data) == IF data.t = "str" THEN data.v ELSE repr(data)

(***************************************************************************)
(* The file system as the helpers see it.                                  *)
(***************************************************************************)
NoFile == [exists |-> FALSE, text |-> <<>>]
FileOf(text) == [exists |-> TRUE, text |-> text]

\* the directories that exist
ExistingDirs == {<<"d">>}

\* os.path.dirname(p)
Dirname(p) == IF RFind(p, "/") = 0 THEN <<>> ELSE SubSeq(p, 1, RFind(p, "/") - 1)

ParentExists(p) == Dirname(p) \in ExistingDirs

\* str(e) of the FileNotFoundError open() raises
ENOENT(p) == <<"[Errno 2] No such file or directory: ", p>>

RECURSIVE Translate(_)
\* universal-newline translation of a text file opened for reading with the
\* default newline=None: "\r\n" and "\r" are read as "\n"
Translate(s) ==
    IF s = <<>> THEN <<>>
    ELSE IF Head(s) = CR
         THEN IF Len(s) >= 2 /\ s[2] = LF
              THEN <<LF>> \o Translate(From(s, 3))
              ELSE <<LF>> \o Translate(Tail(s))
         ELSE <<Head(s)>> \o Translate(Tail(s))

\* what a text file opened for writing stores for `s`: with newline=None every
\* "\n" becomes os.linesep, which is "\n" here
Written(s) == s

RECURSIVE ReadChunks(_, _)
\* "".join(iter(lambda: f.read(chunk_size), "")): f.read(n) returns the next n
\* characters (everything left when n < 0), and the loop ends at the first ""
ReadChunks(s, chunk_size) ==
    IF s = <<>> THEN <<>>
    ELSE IF chunk_size < 0 \/ chunk_size >= Len(s) THEN s
    ELSE SubSeq(s, 1, chunk_size) \o ReadChunks(From(s, chunk_size + 1), chunk_size)

RECURSIVE splitlines(_)
\* str.splitlines() of a text whose only line boundary is "\n"
splitlines(s) ==
    IF s = <<>> THEN <<>>
    ELSE LET ends == {i \in 1..Len(s) : s[i] = LF}
         IN IF ends = {} THEN <<PyStr(s)>>
            ELSE LET e == CHOOSE i \in ends : \A j \in ends : i <= j
                 IN <<PyStr(SubSeq(s, 1, e - 1))>> \o splitlines(From(s, e + 1))

(***************************************************************************)
(* get_extension: os.path.splitext(file_path)[1]                           *)
(***************************************************************************)
get_extension(file_path) ==
    LET sepIndex == RFind(file_path, "/")
        dotIndex == RFind(file_path, ".")
    IN IF dotIndex > sepIndex
          /\ \E i \in (sepIndex + 1)..(dotIndex - 1) : file_path[i] # "."
       THEN PyStr(From(file_path, dotIndex))
       ELSE PyStr(<<>>)

(***************************************************************************)
(* read_file and write_file                                                *)
(***************************************************************************)
read_file(f, file_path, read_line_by_line, chunk_size) ==
    IF ~f.exists
    THEN Raised("Exception", <<"file not found error : ", ENOENT(file_path)>>)
    ELSE LET whole == Translate(f.text)
             text == IF chunk_size = 0 THEN whole ELSE ReadChunks(whole, chunk_size)
         IN IF read_line_by_line
            THEN Returned(PyList(splitlines(text)))
            ELSE Returned(PyStr(text))

\* a slip in the normalisation: a mode that is neither "a" nor "w" appends
Mut_NormalizeMode(mode) == IF mode \notin {"a", "w"} THEN "a" ELSE mode

\* mode = "w" if mode not in ["a", "w"] else mode
NormalizeMode(mode) == IF mode \notin {"a", "w"} THEN "w" ELSE mode

\* open(file_path, mode) followed by one write of `text`
OpenAndWrite(f, mode, text) ==
    IF mode = "a" THEN FileOf(f.text \o text) ELSE FileOf(text)

write_file(f, file_path, data, mode) ==
    LET text == str(data)
        m == NormalizeMode(mode)
    IN IF ~ParentExists(file_path)
       THEN [file |-> f, out |-> Returned(PyBool(FALSE))]
       ELSE [file |-> OpenAndWrite(f, m, Written(text)),
             out |-> Returned(PyBool(TRUE))]

(***************************************************************************)
(* json.load and json.dump.  The decoder follows json.decoder/json.scanner *)
(* (scan_once, JSONObject, JSONArray, scanstring, JSONDecoder.decode) on   *)
(* texts that hold no backslash and none of - . + e E N I, so every        *)
(* number is a non-negative integer and no string holds an escape.         *)
(* Indices are 1-based; a reported position is the 0-based one of Python.  *)
(***************************************************************************)
WHITESPACE == {" ", "\t", "\n", "\r"}

At(s, i) == IF i >= 1 /\ i <= Len(s) THEN s[i] ELSE ""

IsDigit(c) == \E k \in 1..10 : Digit[k] = c

DigitVal(c) == (CHOOSE k \in 1..10 : Digit[k] = c) - 1

RECURSIVE SkipWs(_, _)
\* WHITESPACE.match(s, i).end()
SkipWs(s, i) == IF At(s, i) \in WHITESPACE THEN SkipWs(s, i + 1) ELSE i

Parsed(v, end) == [value |-> v, end |-> end, ok |-> TRUE]
DecodeError(msg, i) == [msg |-> msg, ok |-> FALSE, pos |-> i - 1]

\* s.startswith(word, i)
StartsWith(s, i, word) ==
    i + Len(word) - 1 <= Len(s) /\ SubSeq(s, i, i + Len(word) - 1) = word

\* scanstring(s, end): `end` is the index after the opening quote
scanstring(s, end) ==
    LET stops == {j \in end..Len(s) : s[j] = QUOTE \/ s[j] \in {"\n", "\r", "\t"}}
    IN IF stops = {} THEN DecodeError("Unterminated string starting at", end - 1)
       ELSE LET j == CHOOSE x \in stops : \A y \in stops : x <= y
            IN IF s[j] = QUOTE
               THEN Parsed(PyStr(SubSeq(s, end, j - 1)), j + 1)
               ELSE DecodeError("Invalid control character at", j)

RECURSIVE ScanInt(_, _, _)
\* the digits matched by NUMBER_RE from index i on, as [value, end]
ScanInt(s, i, acc) ==
    IF IsDigit(At(s, i)) THEN ScanInt(s, i + 1, 10 * acc + DigitVal(s[i]))
    ELSE Parsed(PyInt(acc), i)

RECURSIVE dict(_)
\* dict(pairs): a key keeps the place of its first pair and the value of its last
dict(pairs) ==
    IF pairs = <<>> THEN <<>>
    ELSE LET init == dict(SubSeq(pairs, 1, Len(pairs) - 1))
             p == pairs[Len(pairs)]
         IN IF \E k \in 1..Len(init) : init[k][1] = p[1]
            THEN [k \in 1..Len(init) |-> IF init[k][1] = p[1] THEN p ELSE init[k]]
            ELSE Append(init, p)

RECURSIVE scan_once(_, _)
RECURSIVE JSONArrayLoop(_, _, _)
RECURSIVE JSONObjectLoop(_, _, _)

\* JSONArray((s, end), scan_once): `end` is the index after "["
JSONArray(s, end) ==
    LET e1 == IF At(s, end) \in WHITESPACE THEN SkipWs(s, end + 1) ELSE end
    IN IF At(s, e1) = "]" THEN Parsed(PyList(<<>>), e1 + 1)
       ELSE JSONArrayLoop(s, e1, <<>>)

\* the rest of one turn of JSONArray's loop, `r` being what scan_once gave
ArrayAfterValue(s, values, r) ==
    IF ~r.ok THEN r
    ELSE LET vals == Append(values, r.value)
             e1 == IF At(s, r.end) \in WHITESPACE THEN SkipWs(s, r.end + 1) ELSE r.end
             nextchar == At(s, e1)
         IN IF nextchar = "]" THEN Parsed(PyList(vals), e1 + 1)
            ELSE IF nextchar # "," THEN DecodeError("Expecting ',' delimiter", e1)
            ELSE JSONArrayLoop(s, SkipWs(s, e1 + 1), vals)

JSONArrayLoop(s, end, values) == ArrayAfterValue(s, values, scan_once(s, end))

\* JSONObject((s, end), ...): `end` is the index after "{"
JSONObject(s, end) ==
    LET e1 == IF At(s, end) = QUOTE THEN end ELSE SkipWs(s, end)
    IN IF At(s, e1) = "}" THEN Parsed(PyDict(<<>>), e1 + 1)
       ELSE IF At(s, e1) # QUOTE
       THEN DecodeError("Expecting property name enclosed in double quotes", e1)
       ELSE JSONObjectLoop(s, e1 + 1, <<>>)

\* the end of one turn of JSONObject's loop, `r` being what scan_once gave for
\* the value of `key`
ObjectAfterValue(s, pairs, key, r) ==
    IF ~r.ok THEN r
    ELSE LET ps == Append(pairs, <<key, r.value>>)
             e3 == IF At(s, r.end) \in WHITESPACE THEN SkipWs(s, r.end + 1) ELSE r.end
             nextchar == At(s, e3)
             e4 == SkipWs(s, e3 + 1)
         IN IF nextchar = "}" THEN Parsed(PyDict(dict(ps)), e3 + 1)
            ELSE IF nextchar # "," THEN DecodeError("Expecting ',' delimiter", e3)
            ELSE IF At(s, e4) # QUOTE
            THEN DecodeError("Expecting property name enclosed in double quotes", e4)
            ELSE JSONObjectLoop(s, e4 + 1, ps)

\* the middle of one turn, `key` being what scanstring gave
ObjectAfterKey(s, pairs, key) ==
    IF ~key.ok THEN key
    ELSE LET e1 == IF At(s, key.end) # ":" THEN SkipWs(s, key.end) ELSE key.end
         IN IF At(s, e1) # ":" THEN DecodeError("Expecting ':' delimiter", e1)
            ELSE ObjectAfterValue(s, pairs, key.value, scan_once(s, SkipWs(s, e1 + 1)))

\* one turn of JSONObject's loop: `end` is the index after the key's opening quote
JSONObjectLoop(s, end, pairs) == ObjectAfterKey(s, pairs, scanstring(s, end))

\* scan_once(string, idx); its StopIteration is the "Expecting value" error
\* every caller turns it into
scan_once(s, idx) ==
    LET nextchar == At(s, idx)
    IN IF nextchar = QUOTE THEN scanstring(s, idx + 1)
       ELSE IF nextchar = "{" THEN JSONObject(s, idx + 1)
       ELSE IF nextchar = "[" THEN JSONArray(s, idx + 1)
       ELSE IF StartsWith(s, idx, <<"n", "u", "l", "l">>) THEN Parsed(PyNone, idx + 4)
       ELSE IF StartsWith(s, idx, <<"t", "r", "u", "e">>) THEN Parsed(PyBool(TRUE), idx + 4)
       ELSE IF StartsWith(s, idx, <<"f", "a", "l", "s", "e">>)
       THEN Parsed(PyBool(FALSE), idx + 5)
       ELSE IF nextchar = "0" THEN Parsed(PyInt(0), idx + 1)
       ELSE IF IsDigit(nextchar) THEN ScanInt(s, idx, 0)
       ELSE DecodeError("Expecting value", idx)

\* what decode makes of the value scan_once gave: only whitespace may follow it
DecodeEnd(s, r) ==
    IF ~r.ok THEN r
    ELSE IF SkipWs(s, r.end) # Len(s) + 1
    THEN DecodeError("Extra data", SkipWs(s, r.end))
    ELSE r

\* JSONDecoder.decode(s)
decode(s) == DecodeEnd(s, scan_once(s, SkipWs(s, 1)))

RECURSIVE dumps(_)
RECURSIVE JoinDumps(_, _)
\* json.dumps(obj) with the default separators ", " and ": "
dumps(obj) ==
    CASE obj.t = "str" -> <<QUOTE>> \o obj.v \o <<QUOTE>>
      [] obj.t = "int" -> IntDigits(obj.v)
      [] obj.t = "bool" -> IF obj.v THEN <<"t", "r", "u", "e">>
                           ELSE <<"f", "a", "l", "s", "e">>
      [] obj.t = "NoneType" -> <<"n", "u", "l", "l">>
      [] obj.t = "list" -> <<"[">> \o JoinDumps(obj.v, FALSE) \o <<"]">>
      [] obj.t = "dict" -> <<"{">> \o JoinDumps(obj.v, TRUE) \o <<"}">>

\* the items of a list, or the key: value pairs of a dict, joined by ", "
JoinDumps(items, isDict) ==
    IF items = <<>> THEN <<>>
    ELSE LET one == IF isDict
                    THEN dumps(Head(items)[1]) \o <<":", " ">> \o dumps(Head(items)[2])
                    ELSE dumps(Head(items))
         IN IF Len(items) = 1 THEN one
            ELSE one \o <<",", " ">> \o JoinDumps(Tail(items), isDict)

(***************************************************************************)
(* read_json and write_json                                                *)
(***************************************************************************)
\* json.load(f) inside read_json's try: `r` is what the decoder made of the text
JsonLoaded(r) ==
    IF r.ok THEN Returned(r.value)
    ELSE Raised("Exception", <<"json decode error : ", <<r.msg, r.pos>>>>)

read_json(f, file_path, chunk_size) ==
    IF ~f.exists
    THEN Raised("Exception", <<"file not found error : ", ENOENT(file_path)>>)
    ELSE IF chunk_size = 0 THEN JsonLoaded(decode(Translate(f.text)))
    \* json.load is handed the str the chunks were joined into, not a file
    ELSE Raised("AttributeError", <<"'str' object has no attribute 'read'">>)

write_json(f, file_path, data, mode) ==
    LET m == NormalizeMode(mode)
    IN IF ~ParentExists(file_path)
       THEN [file |-> f, out |-> Returned(PyBool(FALSE))]
       ELSE [file |-> OpenAndWrite(f, m, Written(dumps(data))),
             out |-> Returned(PyBool(TRUE))]

(***************************************************************************)
(* csv.reader and csv.writer with the default ("excel") dialect:           *)
(* delimiter ",", quotechar QUOTE, doublequote, no escapechar,             *)
(* lineterminator "\r\n", QUOTE_MINIMAL, not strict.  The reader is the    *)
(* state machine of _csv.c (parse_process_char, Reader_iternext).          *)
(***************************************************************************)
EOL == "EOL"

ParseReset == [state |-> "START_RECORD", fields |-> <<>>, field |-> <<>>, error |-> FALSE]

\* parse_save_field
SaveField(st, state) ==
    [st EXCEPT !.fields = Append(@, PyStr(st.field)), !.field = <<>>, !.state = state]

\* parse_add_char
AddChar(st, c, state) == [st EXCEPT !.field = Append(@, c), !.state = state]

AfterLineEnd(c) == IF c = EOL THEN "START_RECORD" ELSE "EAT_CRNL"

\* the START_FIELD case, which START_RECORD falls through to
StartField(st, c) ==
    IF c \in {LF, CR, EOL} THEN SaveField(st, AfterLineEnd(c))
    ELSE IF c = QUOTE THEN [st EXCEPT !.state = "IN_QUOTED_FIELD"]
    ELSE IF c = COMMA THEN SaveField(st, "START_FIELD")
    ELSE AddChar(st, c, "IN_FIELD")

\* parse_process_char(self, c)
ProcessChar(st, c) ==
    CASE st.error -> st
      [] st.state = "START_RECORD" ->
            IF c = EOL THEN st
            ELSE IF c \in {LF, CR} THEN [st EXCEPT !.state = "EAT_CRNL"]
            ELSE StartField(st, c)
      [] st.state = "START_FIELD" -> StartField(st, c)
      [] st.state = "IN_FIELD" ->
            IF c \in {LF, CR, EOL} THEN SaveField(st, AfterLineEnd(c))
            ELSE IF c = COMMA THEN SaveField(st, "START_FIELD")
            ELSE AddChar(st, c, "IN_FIELD")
      [] st.state = "IN_QUOTED_FIELD" ->
            IF c = EOL THEN st
            ELSE IF c = QUOTE THEN [st EXCEPT !.state = "QUOTE_IN_QUOTED_FIELD"]
            ELSE AddChar(st, c, "IN_QUOTED_FIELD")
      [] st.state = "QUOTE_IN_QUOTED_FIELD" ->
            IF c = QUOTE THEN AddChar(st, c, "IN_QUOTED_FIELD")
            ELSE IF c = COMMA THEN SaveField(st, "START_FIELD")
            ELSE IF c \in {LF, CR, EOL} THEN SaveField(st, AfterLineEnd(c))
            ELSE AddChar(st, c, "IN_FIELD")
      [] st.state = "EAT_CRNL" ->
            IF c \in {LF, CR} THEN st
            ELSE IF c = EOL THEN [st EXCEPT !.state = "START_RECORD"]
            ELSE [st EXCEPT !.error = TRUE]

RECURSIVE FeedLine(_, _)
\* the characters of one line, in order
FeedLine(st, line) ==
    IF line = <<>> THEN st ELSE FeedLine(ProcessChar(st, Head(line)), Tail(line))

RECURSIVE FileLines(_)
\* iterating a text file: its lines, each with its "\n" kept
FileLines(s) ==
    IF s = <<>> THEN <<>>
    ELSE LET ends == {i \in 1..Len(s) : s[i] = LF}
         IN IF ends = {} THEN <<s>>
            ELSE LET e == CHOOSE i \in ends : \A j \in ends : i <= j
                 IN <<SubSeq(s, 1, e)>> \o FileLines(From(s, e + 1))

RECURSIVE ReaderNext(_, _)
\* Reader_iternext from the second line of a record on: lines are consumed
\* until the parser is back in START_RECORD; when the input ends inside a
\* record the pending field is saved and the record returned
ReaderNext(lines, st) ==
    IF lines = <<>>
    THEN [ok |-> TRUE, row |-> PyList(Append(st.fields, PyStr(st.field))), rest |-> <<>>]
    ELSE LET st2 == ProcessChar(FeedLine(st, Head(lines)), EOL)
         IN IF st2.error THEN [ok |-> FALSE, row |-> PyList(<<>>), rest |-> <<>>]
            ELSE IF st2.state = "START_RECORD"
            THEN [ok |-> TRUE, row |-> PyList(st2.fields), rest |-> Tail(lines)]
            ELSE ReaderNext(Tail(lines), st2)

RECURSIVE ReaderRows(_)
\* list(csv.reader(f)): [ok, rows]; ok is false when the reader raises csv.Error
ReaderRows(lines) ==
    IF lines = <<>> THEN [ok |-> TRUE, rows |-> <<>>]
    ELSE LET r == ReaderNext(lines, ParseReset)
             more == ReaderRows(r.rest)
         IN IF ~r.ok \/ ~more.ok THEN [ok |-> FALSE, rows |-> <<>>]
            ELSE [ok |-> TRUE, rows |-> <<r.row>> \o more.rows]

RECURSIVE EscapeField(_)
\* join_append_data: the field with every quotechar doubled
EscapeField(field) ==
    IF field = <<>> THEN <<>>
    ELSE (IF Head(field) = QUOTE THEN <<QUOTE, QUOTE>> ELSE <<Head(field)>>)
         \o EscapeField(Tail(field))

\* a field is quoted when it holds the delimiter, the quotechar or a character
\* of the lineterminator
NeedsQuotes(field) == \E i \in 1..Len(field) : field[i] \in {COMMA, QUOTE, CR, LF}

WriteField(field) ==
    IF NeedsQuotes(field) THEN <<QUOTE>> \o EscapeField(field) \o <<QUOTE>> ELSE field

RECURSIVE JoinFields(_)
JoinFields(fields) ==
    IF fields = <<>> THEN <<>>
    ELSE IF Len(fields) = 1 THEN WriteField(Head(fields).v)
    ELSE WriteField(Head(fields).v) \o <<COMMA>> \o JoinFields(Tail(fields))

\* csv_writerow: a row of one empty field is written as a quoted empty field
writerow(row) ==
    LET rec == JoinFields(row.v)
    IN (IF Len(row.v) > 0 /\ rec = <<>> THEN <<QUOTE, QUOTE>> ELSE rec) \o <<CR, LF>>

RECURSIVE writerows(_)
writerows(rows) ==
    IF rows = <<>> THEN <<>> ELSE writerow(Head(rows)) \o writerows(Tail(rows))

(***************************************************************************)
(* read_csv and write_csv                                                  *)
(***************************************************************************)
DefaultChunkSize == 1000

Abs(n) == IF n < 0 THEN -n ELSE n

RECURSIVE GroupRows(_, _, _, _)
\* for i, row in enumerate(reader): a multiple of chunk_size opens a row-group,
\* and the row joins the last row-group
GroupRows(data, i, rows, chunk_size) ==
    IF rows = <<>> THEN data
    ELSE LET opened == IF i % Abs(chunk_size) = 0 THEN Append(data, PyList(<<>>)) ELSE data
             n == Len(opened)
         IN GroupRows([opened EXCEPT ![n] = PyList(Append(opened[n].v, Head(rows)))],
                      i + 1, Tail(rows), chunk_size)

\* a slip in the header handling: the header is read but stays among the rows
\* that are grouped
Mut_read_csv(f, file_path, chunk_size, has_header) ==
    IF ~f.exists
    THEN Raised("Exception", <<"file not found error : ", ENOENT(file_path)>>)
    ELSE LET parsed == ReaderRows(FileLines(Translate(f.text)))
             rows == parsed.rows
         IN IF ~parsed.ok THEN Raised("Error", <<"new-line character seen in unquoted field">>)
            ELSE IF has_header /\ parsed.rows = <<>> THEN Raised("StopIteration", <<>>)
            ELSE IF chunk_size = 0 /\ rows # <<>>
            THEN Raised("ZeroDivisionError", <<"integer modulo by zero">>)
            ELSE LET data == GroupRows(<<>>, 0, rows, chunk_size)
                 IN Returned(PyList(IF has_header THEN <<Head(parsed.rows)>> \o data
                                    ELSE data))

read_csv(f, file_path, chunk_size, has_header) ==
    IF ~f.exists
    THEN Raised("Exception", <<"file not found error : ", ENOENT(file_path)>>)
    ELSE LET parsed == ReaderRows(FileLines(Translate(f.text)))
             rows == IF has_header THEN Tail(parsed.rows) ELSE parsed.rows
         IN IF ~parsed.ok THEN Raised("Error", <<"new-line character seen in unquoted field">>)
            \* next(reader) on a file without any row
            ELSE IF has_header /\ parsed.rows = <<>> THEN Raised("StopIteration", <<>>)
            ELSE IF chunk_size = 0 /\ rows # <<>>
            THEN Raised("ZeroDivisionError", <<"integer modulo by zero">>)
            ELSE LET data == GroupRows(<<>>, 0, rows, chunk_size)
                 IN Returned(PyList(IF has_header THEN <<Head(parsed.rows)>> \o data
                                    ELSE data))

write_csv(f, file_path, data, mode) ==
    LET m == IF mode \in {"a", "w"} THEN mode ELSE "w"
    IN IF ~ParentExists(file_path)
       THEN [file |-> f, out |-> Returned(PyBool(FALSE))]
       \* newline="": the writer's "\r\n" is stored as it is
       ELSE [file |-> OpenAndWrite(f, m, writerows(data.v)),
             out |-> Returned(PyBool(TRUE))]

(***************************************************************************)
(* ExtensionType and the two dispatch functions.  `match extension` with   *)
(* `case ExtensionType.TXT` is a value pattern: it compares the str that   *)
(* get_extension returned with the Enum member, by ==.  `via` names the    *)
(* primitive the call was delegated to ("" when none was called).          *)
(***************************************************************************)
Member(value) == [t |-> "ExtensionType", v |-> value]

ExtensionType ==
    [TXT |-> Member(<<".", "t", "x", "t">>),
     JSON |-> Member(<<".", "j", "s", "o", "n">>),
     CSV |-> Member(<<".", "c", "s", "v">>),
     LOG |-> Member(<<".", "l", "o", "g">>),
     PY |-> Member(<<".", "p", "y">>)]

\* a slip in the dispatch: an extension that matches no case is read as text
Mut_read_file_by_extension(f, file_path, read_line_by_line) ==
    LET extension == get_extension(file_path)
    IN CASE PyEq(extension, ExtensionType.TXT) ->
              [out |-> read_file(f, file_path, read_line_by_line, 0), via |-> "read_file"]
         [] PyEq(extension, ExtensionType.CSV) ->
              [out |-> read_csv(f, file_path, DefaultChunkSize, FALSE), via |-> "read_csv"]
         [] PyEq(extension, ExtensionType.JSON) ->
              [out |-> read_json(f, file_path, 0), via |-> "read_json"]
         [] PyEq(extension, ExtensionType.LOG) ->
              [out |-> read_file(f, file_path, read_line_by_line, 0), via |-> "read_file"]
         [] PyEq(extension, ExtensionType.PY) ->
              [out |-> read_file(f, file_path, read_line_by_line, 0), via |-> "read_file"]
         [] OTHER ->
              [out |-> read_file(f, file_path, read_line_by_line, 0), via |-> "read_file"]

read_file_by_extension(f, file_path, read_line_by_line) ==
    LET extension == get_extension(file_path)
    IN CASE PyEq(extension, ExtensionType.TXT) ->
              [out |-> read_file(f, file_path, read_line_by_line, 0), via |-> "read_file"]
         [] PyEq(extension, ExtensionType.CSV) ->
              [out |-> read_csv(f, file_path, DefaultChunkSize, FALSE), via |-> "read_csv"]
         [] PyEq(extension, ExtensionType.JSON) ->
              [out |-> read_json(f, file_path, 0), via |-> "read_json"]
         [] PyEq(extension, ExtensionType.LOG) ->
              [out |-> read_file(f, file_path, read_line_by_line, 0), via |-> "read_file"]
         [] PyEq(extension, ExtensionType.PY) ->
              [out |-> read_file(f, file_path, read_line_by_line, 0), via |-> "read_file"]
         [] OTHER -> [out |-> Raised("Exception", <<>>), via |-> ""]

Delegated(r, via) == [file |-> r.file, out |-> r.out, via |-> via]

write_file_by_extension(f, file_path, data, mode) ==
    LET extension == get_extension(file_path)
    IN CASE PyEq(extension, ExtensionType.TXT) ->
              Delegated(write_file(f, file_path, data, mode), "write_file")
         [] PyEq(extension, ExtensionType.CSV) ->
              Delegated(write_csv(f, file_path, data, mode), "write_csv")
         [] PyEq(extension, ExtensionType.JSON) ->
              Delegated(write_json(f, file_path, data, mode), "write_json")
         [] PyEq(extension, ExtensionType.LOG) ->
              Delegated(write_file(f, file_path, data, mode), "write_file")
         [] PyEq(extension, ExtensionType.PY) ->
              Delegated(write_file(f, file_path, data, mode), "write_file")
         [] OTHER -> [file |-> f, out |-> Raised("Exception", <<>>), via |-> ""]

(***************************************************************************)
(* The calls.  `last` is the latest call with its outcome; `prev` is the   *)
(* call before it, kept while `last` is a read_file_by_extension call.     *)
(* `before`, `truncated` and `appended` follow the successful write_file   *)
(* calls on the path: the text the file held before the first of them, the *)
(* data of the latest one whose mode was not "a", and the data of the      *)
(* mode-"a" calls since, in call order.  Any other successful write starts *)
(* them afresh.                                                            *)
(***************************************************************************)
NoCall == [out |-> Returned(PyNone), via |-> "", fn |-> "", args |-> <<>>]

NotTruncated == [data |-> <<>>, has |-> FALSE]

Succeeded(r) == r.out = Returned(PyBool(TRUE))

Call(fn, args, out, via) == [out |-> out, via |-> via, fn |-> fn, args |-> args]

\* a call that wrote, or tried to write, through something other than a direct
\* write_file call
OtherWrite(r) ==
    /\ file' = r.file
    /\ IF Succeeded(r)
       THEN before' = r.file.text /\ truncated' = NotTruncated /\ appended' = <<>>
       ELSE UNCHANGED <<before, truncated, appended>>

Call_write_file(data, mode) ==
    LET r == write_file(file, path, data, mode)
    IN /\ file' = r.file
       /\ last' = Call("write_file", <<data, mode>>, r.out, "write_file")
       /\ prev' = NoCall
       /\ IF ~Succeeded(r) THEN UNCHANGED <<truncated, appended>>
          ELSE IF mode = "a"
          THEN truncated' = truncated /\ appended' = appended \o str(data)
          ELSE truncated' = [data |-> str(data), has |-> TRUE] /\ appended' = <<>>
       /\ UNCHANGED <<path, before>>

Call_write_json(data, mode) ==
    LET r == write_json(file, path, data, mode)
    IN /\ OtherWrite(r)
       /\ last' = Call("write_json", <<data, mode>>, r.out, "write_json")
       /\ prev' = NoCall
       /\ UNCHANGED path

Call_write_csv(data, mode) ==
    LET r == write_csv(file, path, data, mode)
    IN /\ OtherWrite(r)
       /\ last' = Call("write_csv", <<data, mode>>, r.out, "write_csv")
       /\ prev' = NoCall
       /\ UNCHANGED path

Call_write_file_by_extension(data, mode) ==
    LET r == write_file_by_extension(file, path, data, mode)
    IN /\ OtherWrite(r)
       /\ last' = Call("write_file_by_extension", <<data, mode>>, r.out, r.via)
       /\ prev' = NoCall
       /\ UNCHANGED path

Call_read_file(read_line_by_line, chunk_size) ==
    /\ last' = Call("read_file", <<read_line_by_line, chunk_size>>,
                    read_file(file, path, read_line_by_line, chunk_size), "read_file")
    /\ prev' = NoCall
    /\ UNCHANGED <<path, file, before, truncated, appended>>

Call_read_json(chunk_size) ==
    /\ last' = Call("read_json", <<chunk_size>>,
                    read_json(file, path, chunk_size), "read_json")
    /\ prev' = NoCall
    /\ UNCHANGED <<path, file, before, truncated, appended>>

Call_read_csv(chunk_size, has_header) ==
    /\ last' = Call("read_csv", <<chunk_size, has_header>>,
                    read_csv(file, path, chunk_size, has_header), "read_csv")
    /\ prev' = NoCall
    /\ UNCHANGED <<path, file, before, truncated, appended>>

Call_read_file_by_extension(read_line_by_line) ==
    LET r == read_file_by_extension(file, path, read_line_by_line)
    IN /\ last' = Call("read_file_by_extension", <<read_line_by_line>>, r.out, r.via)
       /\ prev' = last
       /\ UNCHANGED <<path, file, before, truncated, appended>>

(***************************************************************************)
(* Paths, inputs and the specification of the dispatch functions.          *)
(***************************************************************************)
Modes == {"a", "w", "x"}

InDir(dir, name) == dir \o <<"/">> \o name

SupportedNames ==
    {<<"a", ".", "t", "x", "t">>, <<"a", ".", "l", "o", "g">>, <<"a", ".", "p", "y">>,
     <<"a", ".", "c", "s", "v">>, <<"a", ".", "j", "s", "o", "n">>}

UnsupportedNames ==
    {<<"a", ".", "x", "y", "z">>, <<"a">>, <<".", "t", "x", "t">>,
     <<"a", ".", "T", "X", "T">>, <<"a", ".", "t", "x", "t", ".">>}

\* the directory "d" exists and "nodir" does not
Paths ==
    {InDir(<<"d">>, n) : n \in SupportedNames \cup UnsupportedNames}
    \cup {InDir(<<"n", "o", "d", "i", "r">>, n) :
             n \in SupportedNames \cup {<<"a", ".", "x", "y", "z">>}}

TextA == PyStr(<<"a">>)
JsonA == PyDict(<<<<PyStr(<<"a">>), PyInt(1)>>>>)
CsvA == PyList(<<PyList(<<PyStr(<<"a">>), PyStr(<<"b">>)>>)>>)

\* the data handed to write_file_by_extension: a str, a dict and a table
DispatchData == <<TextA, JsonA, CsvA>>

InitFile(p, texts) ==
    /\ path = p
    /\ file \in (IF ParentExists(p) THEN {NoFile} \cup {FileOf(t) : t \in texts}
                 ELSE {NoFile})
    /\ last = NoCall
    /\ prev = NoCall
    /\ before = file.text
    /\ truncated = NotTruncated
    /\ appended = <<>>

Init ==
    \E p \in Paths : InitFile(p, {<<>>, <<"a">>, dumps(JsonA), writerows(CsvA.v)})

Next ==
    \/ \E i \in 1..Len(DispatchData), mode \in Modes :
          Call_write_file_by_extension(DispatchData[i], mode)
    \/ \E read_line_by_line \in BOOLEAN : Call_read_file_by_extension(read_line_by_line)
    \/ \E mode \in Modes : Call_write_file(TextA, mode) /\ Len(file'.text) <= MaxFileLen
    \/ \E mode \in Modes : Call_write_json(JsonA, mode) /\ Len(file'.text) <= MaxFileLen
    \/ \E mode \in Modes : Call_write_csv(CsvA, mode) /\ Len(file'.text) <= MaxFileLen

Spec == Init /\ [][Next]_vars

(***************************************************************************)
(* The specification of write_file and read_file on one text file.         *)
(***************************************************************************)
TextPath == InDir(<<"d">>, <<"a", ".", "t", "x", "t">>)

\* the data handed to write_file: strs, and an int that str() turns into "7"
TextData == <<PyStr(<<>>), PyStr(<<"a">>), PyStr(<<"b">>), PyInt(7)>>

InitText == InitFile(TextPath, {<<>>, <<"x">>})

NextText ==
    \/ \E i \in 1..Len(TextData), mode \in Modes :
          Call_write_file(TextData[i], mode) /\ Len(file'.text) <= MaxTextLen
    \/ \E read_line_by_line \in BOOLEAN, chunk_size \in 0..MaxChunk :
          Call_read_file(read_line_by_line, chunk_size)

SpecText == InitText /\ [][NextText]_vars

(***************************************************************************)
(* The specification of the JSON primitives, with write_file to store      *)
(* texts that are not JSON and read_file to read them back.                *)
(***************************************************************************)
JsonPath == InDir(<<"d">>, <<"a", ".", "j", "s", "o", "n">>)

JsonData == <<PyDict(<<>>), PyList(<<PyInt(1)>>), JsonA, PyList(<<PyDict(<<>>)>>)>>

\* {a:} and [1, are not JSON; "\r\n" is read as "\n", which is JSON whitespace
RawJsonTexts ==
    <<PyStr(<<"{", "a", ":", "}">>), PyStr(<<"[", "1", ",">>), PyStr(<<CR, LF>>)>>

InitJson == InitFile(JsonPath, {<<>>})

NextJson ==
    \/ \E i \in 1..Len(JsonData), mode \in Modes :
          Call_write_json(JsonData[i], mode) /\ Len(file'.text) <= MaxFileLen
    \/ \E i \in 1..Len(RawJsonTexts), mode \in Modes :
          Call_write_file(RawJsonTexts[i], mode) /\ Len(file'.text) <= MaxFileLen
    \/ \E chunk_size \in 0..MaxChunk : Call_read_json(chunk_size)
    \/ \E read_line_by_line \in BOOLEAN, chunk_size \in 0..MaxChunk :
          Call_read_file(read_line_by_line, chunk_size)

SpecJson == InitJson /\ [][NextJson]_vars

(***************************************************************************)
(* The specification of the CSV primitives, with write_file to store a     *)
(* field whose quote is left open.                                         *)
(***************************************************************************)
CsvPath == InDir(<<"d">>, <<"a", ".", "c", "s", "v">>)

Row(fields) == PyList([i \in 1..Len(fields) |-> PyStr(fields[i])])

\* an empty row, a row of one field, a row of two fields, a row whose field
\* holds a line break, and two rows
CsvData ==
    <<PyList(<<Row(<<>>)>>),
      PyList(<<Row(<<<<"a">>>>)>>),
      CsvA,
      PyList(<<Row(<<<<"a", LF, "b">>>>)>>),
      PyList(<<Row(<<<<"h">>>>), Row(<<<<>>>>)>>)>>

RawCsvTexts == <<PyStr(<<QUOTE, "a">>), PyStr(<<"a", ",">>)>>

InitCsv == InitFile(CsvPath, {<<>>})

NextCsv ==
    \/ \E i \in 1..Len(CsvData), mode \in Modes :
          Call_write_csv(CsvData[i], mode) /\ Len(file'.text) <= MaxFileLen
    \/ \E i \in 1..Len(RawCsvTexts), mode \in Modes :
          Call_write_file(RawCsvTexts[i], mode) /\ Len(file'.text) <= MaxFileLen
    \/ \E chunk_size \in 0..MaxChunk, has_header \in BOOLEAN :
          Call_read_csv(chunk_size, has_header)

SpecCsv == InitCsv /\ [][NextCsv]_vars

(***************************************************************************)
(* MemoryUnit and the byte-size conversions.  1000**5 and 1024**5 do not   *)
(* fit the model checker's integers, so a number is kept factored: the     *)
(* quantity [m, e10, e2] is m * 1000^e10 * 1024^e2, exactly (a negative    *)
(* exponent is a division); zero is [0, 0, 0].  Two quantities with        *)
(* 0 < m < 125 are equal exactly when their records are.  The rounding of  *)
(* float arithmetic is not modelled.                                       *)
(***************************************************************************)
Unit(name, value) == [value |-> value, name |-> name]

MemoryUnit ==
    <<Unit("B", 0), Unit("kB", 1), Unit("MB", 2), Unit("GB", 3), Unit("TB", 4),
      Unit("PB", 5), Unit("KiB", 6), Unit("MiB", 7), Unit("GiB", 8), Unit("TiB", 9),
      Unit("PiB", 10)>>

Quantity(m) == [m |-> m, e10 |-> 0, e2 |-> 0]

\* q * base**k for base 1000 or 1024 (k < 0: q / base**(-k))
Scale(q, base, k) ==
    IF q.m = 0 THEN q
    ELSE IF base = 1000 THEN [q EXCEPT !.e10 = @ + k]
    ELSE [q EXCEPT !.e2 = @ + k]

\* isinstance(size, (float, int))
IsNumber(size) == size.t \in {"int", "float"}

\* f"{size:.2f} {unit}", kept as its parts
Formatted(q, name) == PyStr(<<[format |-> ".2f", of |-> q], " ", name>>)

convert_bytes(size, target_unit, return_num) ==
    IF ~IsNumber(size) THEN Raised("ValueError", <<"Size type is not valid">>)
    ELSE LET q == IF target_unit.value < 6
                  THEN Scale(size.v, 1000, -target_unit.value)
                  ELSE Scale(size.v, 1024, -(target_unit.value - 5))
         IN IF return_num THEN Returned([t |-> "float", v |-> q])
            ELSE Returned(Formatted(q, target_unit.name))

convert_to_bytes(size, target_unit, return_num) ==
    IF ~IsNumber(size) THEN Raised("ValueError", <<"Size type is not valid">>)
    ELSE LET q == IF target_unit.value < 6
                  THEN Scale(size.v, 1000, target_unit.value)
                  ELSE Scale(size.v, 1024, target_unit.value - 6)
         IN IF return_num THEN Returned([t |-> size.t, v |-> q])
            ELSE Returned(Formatted(q, "B"))

convert_data_size(size, current_unit, convert_unit, return_num) ==
    LET size_in_bytes == convert_to_bytes(size, current_unit, TRUE)
    IN IF size_in_bytes.kind = "raise" THEN size_in_bytes
       ELSE convert_bytes(size_in_bytes.value, convert_unit, return_num)

\* the sizes handed to the conversions: ints, and a str that is no number
SizeInput(k) == IF k > MaxSize THEN PyStr(<<"1">>) ELSE [t |-> "int", v |-> Quantity(k)]

Call_convert_bytes(size, target_unit, return_num) ==
    /\ last' = Call("convert_bytes", <<size, target_unit, return_num>>,
                    convert_bytes(size, target_unit, return_num), "")
    /\ prev' = NoCall
    /\ UNCHANGED <<path, file, before, truncated, appended>>

Call_convert_to_bytes(size, target_unit, return_num) ==
    /\ last' = Call("convert_to_bytes", <<size, target_unit, return_num>>,
                    convert_to_bytes(size, target_unit, return_num), "")
    /\ prev' = NoCall
    /\ UNCHANGED <<path, file, before, truncated, appended>>

Call_convert_data_size(size, current_unit, convert_unit, return_num) ==
    /\ last' = Call("convert_data_size", <<size, current_unit, convert_unit, return_num>>,
                    convert_data_size(size, current_unit, convert_unit, return_num), "")
    /\ prev' = NoCall
    /\ UNCHANGED <<path, file, before, truncated, appended>>

InitPure ==
    /\ path = <<>>
    /\ file = NoFile
    /\ last = NoCall
    /\ prev = NoCall
    /\ before = <<>>
    /\ truncated = NotTruncated
    /\ appended = <<>>

NextConv ==
    \/ \E k \in 0..(MaxSize + 1), u \in 1..Len(MemoryUnit), return_num \in BOOLEAN :
          Call_convert_bytes(SizeInput(k), MemoryUnit[u], return_num)
    \/ \E k \in 0..(MaxSize + 1), u \in 1..Len(MemoryUnit), return_num \in BOOLEAN :
          Call_convert_to_bytes(SizeInput(k), MemoryUnit[u], return_num)
    \/ \E k \in 0..(MaxSize + 1), u \in 1..Len(MemoryUnit), c \in 1..Len(MemoryUnit),
          return_num \in BOOLEAN :
          Call_convert_data_size(SizeInput(k), MemoryUnit[u], MemoryUnit[c], return_num)

SpecConv == InitPure /\ [][NextConv]_vars

(***************************************************************************)
(* common_request.  `net` is what the one blocking requests call does: it  *)
(* raises, or it returns a response with a status code and a body.         *)
(***************************************************************************)
COMMON_TIMEOUT == 2

RequestMethod(name) == [t |-> "RequestMethods", v |-> name]

RequestMethods ==
    [GET |-> RequestMethod("GET"), POST |-> RequestMethod("POST"),
     DELETE |-> RequestMethod("DELETE"), PUT |-> RequestMethod("PUT")]

\* requests.codes.ok
codes_ok == 200

NetRaises(type, msg) == [kind |-> "raise", type |-> type, msg |-> <<msg>>]
Response(status_code, text) == [kind |-> "response", text |-> text, status_code |-> status_code]

\* result.json()["result"], `r` being what the decoder made of the body
ResultField(r) ==
    IF ~r.ok THEN Raised("JSONDecodeError", <<r.msg, r.pos>>)
    ELSE IF r.value.t # "dict"
    THEN Raised("TypeError", <<r.value.t, " is not subscriptable by a str">>)
    ELSE LET hits == {k \in 1..Len(r.value.v) :
                         r.value.v[k][1] = PyStr(<<"r", "e", "s", "u", "l", "t">>)}
         IN IF hits = {} THEN Raised("KeyError", <<"'result'">>)
            ELSE Returned(r.value.v[CHOOSE k \in hits : TRUE][2])

Triple(res, is_success, message) ==
    Returned([t |-> "tuple", v |-> <<res, PyBool(is_success), message>>])

\* the try block once the method is known to be one of the four
AfterRequest(net) ==
    IF net.kind = "raise" THEN Triple(PyNone, FALSE, net.msg)
    ELSE IF net.status_code = codes_ok
    THEN LET field == ResultField(decode(net.text))
         IN IF field.kind = "raise" THEN Triple(PyNone, FALSE, field.msg)
            ELSE Triple(field.value, TRUE, <<>>)
    ELSE Triple(PyNone, FALSE, <<>>)

common_request(ip, port, url_path, timeout, protocol, headers, params, method, net) ==
    IF \E name \in DOMAIN RequestMethods : PyEq(method, RequestMethods[name])
    THEN AfterRequest(net)
    ELSE Triple(PyNone, FALSE, <<"Do not support request method">>)

\* the request that goes out: GET sends params as the query, the others as JSON
Sent(ip, port, url_path, timeout, protocol, headers, params, method) ==
    IF \E name \in DOMAIN RequestMethods : PyEq(method, RequestMethods[name])
    THEN [timeout |-> timeout,
          headers |-> headers,
          params |-> params,
          verb |-> method.v,
          url |-> <<protocol, "://", ip, ":", port, "/", url_path>>,
          carried |-> IF method.v = "GET" THEN "params" ELSE "json"]
    ELSE [verb |-> ""]

Call_common_request(protocol, method, net) ==
    /\ last' = Call("common_request", <<protocol, method, net>>,
                    common_request("10.0.0.1", 80, "", COMMON_TIMEOUT, protocol, <<>>,
                                   <<>>, method, net),
                    Sent("10.0.0.1", 80, "", COMMON_TIMEOUT, protocol, <<>>, <<>>, method))
    /\ prev' = NoCall
    /\ UNCHANGED <<path, file, before, truncated, appended>>

\* the methods a call is made with: the four members and a str that is none
MethodInputs ==
    <<RequestMethods.GET, RequestMethods.POST, RequestMethods.DELETE,
      RequestMethods.PUT, [t |-> "str", v |-> "GET"]>>

Key(name) == PyStr(name)

Bodies ==
    <<dumps(PyDict(<<<<Key(<<"r", "e", "s", "u", "l", "t">>), PyInt(1)>>>>)),
      dumps(PyDict(<<<<Key(<<"r", "e", "s", "u", "l", "t">>), PyNone>>>>)),
      dumps(JsonA),
      dumps(PyList(<<PyInt(1)>>)),
      <<"{", "a", ":", "}">>>>

StatusCodes == <<200, 201, 404, 500>>

NetFailures ==
    <<NetRaises("ConnectionError", "Max retries exceeded"),
      NetRaises("ConnectionRefusedError", "[Errno 111] Connection refused"),
      NetRaises("ReadTimeout", "Read timed out."),
      NetRaises("InvalidSchema", "No connection adapters were found")>>

NextReq ==
    \/ \E protocol \in {"http", "https"}, m \in 1..Len(MethodInputs),
          n \in 1..Len(NetFailures) :
          Call_common_request(protocol, MethodInputs[m], NetFailures[n])
    \/ \E protocol \in {"http", "https"}, m \in 1..Len(MethodInputs),
          c \in 1..Len(StatusCodes), b \in 1..Len(Bodies) :
          Call_common_request(protocol, MethodInputs[m],
                              Response(StatusCodes[c], Bodies[b]))

SpecReq == InitPure /\ [][NextReq]_vars

(***************************************************************************)
(* What the claims speak of.                                               *)
(***************************************************************************)
TextExtensions == {<<".", "t", "x", "t">>, <<".", "l", "o", "g">>, <<".", "p", "y">>}
CsvExtension == <<".", "c", "s", "v">>
JsonExtension == <<".", "j", "s", "o", "n">>

Extension(p) == get_extension(p).v

Supported(p) == Extension(p) \in TextExtensions \cup {CsvExtension, JsonExtension}

IsDispatch(call) == call.fn \in {"read_file_by_extension", "write_file_by_extension"}

\* two outcomes are the same return value or the same raised error
SameOutcome(a, b) ==
    /\ a.kind = b.kind
    /\ IF a.kind = "return" THEN PyEq(a.value, b.value)
       ELSE a.type = b.type /\ a.msg = b.msg

ReturnedBool(out, b) == out.kind = "return" /\ PyEq(out.value, PyBool(b))

\* the rows csv.reader finds in the file
FileRows == ReaderRows(FileLines(Translate(file.text))).rows

RECURSIVE FlattenGroups(_)
\* the rows of the row-groups, in order
FlattenGroups(groups) ==
    IF groups = <<>> THEN <<>> ELSE Head(groups).v \o FlattenGroups(Tail(groups))

\* C1: on a path with a supported extension the dispatch functions delegate to
\* the matching primitive (.txt/.log/.py to read_file or write_file, .csv to
\* read_csv or write_csv, .json to read_json or write_json), a read returns
\* what the primitive returns, and the unsupported branch is never taken.
C1_DispatchDelegates ==
    (IsDispatch(last) /\ Supported(path)) =>
        LET kind == IF Extension(path) \in TextExtensions THEN "file"
                    ELSE IF Extension(path) = CsvExtension THEN "csv" ELSE "json"
            reads == last.fn = "read_file_by_extension"
        IN /\ last.via # ""
           /\ last.via = (CASE kind = "file" -> IF reads THEN "read_file" ELSE "write_file"
                            [] kind = "csv" -> IF reads THEN "read_csv" ELSE "write_csv"
                            [] kind = "json" -> IF reads THEN "read_json" ELSE "write_json")
           /\ last.fn = "read_file_by_extension" =>
                 SameOutcome(last.out,
                    CASE kind = "file" -> read_file(file, path, last.args[1], 0)
                      [] kind = "csv" -> read_csv(file, path, DefaultChunkSize, FALSE)
                      [] kind = "json" -> read_json(file, path, 0))
           /\ last.fn = "write_file_by_extension" =>
                 (last.out.kind = "return" /\ last.out.value.t = "bool")

\* the content of each type that matches the extension of the path
MatchingData(p) ==
    IF Extension(p) \in TextExtensions THEN TextA
    ELSE IF Extension(p) = CsvExtension THEN CsvA ELSE JsonA

\* C2: write_file_by_extension(path, data, "w") followed by
\* read_file_by_extension(path) on a supported extension, with content of the
\* matching type, is a round trip: the write returns True and the read returns
\* the content (for .csv: the rows in order, inside their row-groups).
C2_RoundTrip ==
    (/\ last.fn = "read_file_by_extension"
     /\ ~last.args[1]
     /\ prev.fn = "write_file_by_extension"
     /\ prev.args[2] = "w"
     /\ Supported(path)
     /\ ParentExists(path)
     /\ PyEq(prev.args[1], MatchingData(path))) =>
        /\ ReturnedBool(prev.out, TRUE)
        /\ last.out.kind = "return"
        /\ IF Extension(path) = CsvExtension
           THEN FlattenGroups(last.out.value.v) = prev.args[1].v
           ELSE PyEq(last.out.value, prev.args[1])

\* C3: on a path whose extension is not supported (the empty one included) a
\* dispatch call raises the bare Exception of the unsupported branch, calls no
\* primitive and leaves the file as it was.
C3_UnsupportedRaises ==
    [][(IsDispatch(last') /\ ~Supported(path)) =>
          /\ last'.out.kind = "raise"
          /\ last'.out.type = "Exception"
          /\ last'.via = ""
          /\ file' = file]_vars

\* a write and then a read were dispatched on an existing file with an
\* unsupported extension, and both raised
C3_Witness ==
    /\ ~Supported(path)
    /\ file.exists
    /\ prev.fn = "write_file_by_extension"
    /\ prev.out.kind = "raise"
    /\ last.fn = "read_file_by_extension"
    /\ last.out.kind = "raise"

\* C4: read_csv on an existing file with n data rows and chunk_size k >= 1
\* (with has_header the file's first row is the header and not a data row)
\* returns ceil(n/k) row-groups, after the header when has_header: every
\* row-group but the last has k rows, the last has n mod k rows (k when that
\* is 0), and the row-groups joined are the data rows in file order.
C4_ReadCsvRowGroups ==
    (/\ last.fn = "read_csv"
     /\ file.exists
     /\ last.args[1] >= 1
     /\ last.args[2] => FileRows # <<>>) =>
        LET k == last.args[1]
            rows == IF last.args[2] THEN Tail(FileRows) ELSE FileRows
            n == Len(rows)
            outer == last.out.value.v
            groups == IF last.args[2] THEN Tail(outer) ELSE outer
        IN /\ last.out.kind = "return"
           /\ last.args[2] => outer[1] = Head(FileRows)
           /\ Len(groups) = (n + k - 1) \div k
           /\ \A g \in 1..(Len(groups) - 1) : Len(groups[g].v) = k
           /\ n > 0 => Len(groups[Len(groups)].v) = (IF n % k = 0 THEN k ELSE n % k)
           /\ FlattenGroups(groups) = rows

\* a header and three data rows read in row-groups of two: the header, a full
\* row-group and a last row-group of one row
C4_Witness ==
    /\ last.fn = "read_csv"
    /\ last.args = <<2, TRUE>>
    /\ last.out.kind = "return"
    /\ Len(last.out.value.v) = 3
    /\ Len(last.out.value.v[2].v) = 2
    /\ Len(last.out.value.v[3].v) = 1

\* a header alone, read with has_header: a list of length 1 holding the header
C4_WitnessHeaderOnly ==
    /\ last.fn = "read_csv"
    /\ last.args[2]
    /\ last.out.kind = "return"
    /\ Len(FileRows) = 1
    /\ last.out.value.v = <<Head(FileRows)>>

\* C5: after successful write_file calls the file holds the data of the latest
\* call whose mode was not "a" (the text it held before the calls when there is
\* none) followed by the data of every later mode-"a" call, in call order.
C5_WriteFileContent ==
    file.text = (IF truncated.has THEN truncated.data ELSE before) \o appended

\* append "a" then append "b" on an empty file leaves "ab"
C5_Witness ==
    /\ last.fn = "write_file"
    /\ last.args = <<PyStr(<<"b">>), "a">>
    /\ before = <<>>
    /\ ~truncated.has
    /\ appended = <<"a", "b">>
    /\ file.text = <<"a", "b">>

\* a mode that is neither "a" nor "w" truncated a file that held text
C5_WitnessOtherMode ==
    /\ last.fn = "write_file"
    /\ last.args = <<PyStr(<<"b">>), "x">>
    /\ before # <<>>
    /\ file.text = <<"b">>

\* C6: a write on a path whose parent directory is missing returns False and
\* creates no file: write_file_by_extension on a supported extension, and
\* write_file, write_json and write_csv called directly.
C6_MissingParentReturnsFalse ==
    (/\ ~ParentExists(path)
     /\ \/ last.fn \in {"write_file", "write_json", "write_csv"}
        \/ last.fn = "write_file_by_extension" /\ Supported(path)) =>
        (ReturnedBool(last.out, FALSE) /\ ~file.exists)

\* C7: read_json raises a not-found error carrying open()'s message on a
\* missing file, raises a parse error carrying the decoder's message on a file
\* that is not JSON, and returns the parsed value on a file that is JSON.
C7_ReadJsonOutcomes ==
    last.fn = "read_json" =>
        IF ~file.exists
        THEN /\ last.out.kind = "raise"
             /\ last.out.type = "Exception"
             /\ last.out.msg = <<"file not found error : ", ENOENT(path)>>
        ELSE LET r == decode(Translate(file.text))
             IN IF r.ok
                THEN last.out.kind = "return" /\ PyEq(last.out.value, r.value)
                ELSE /\ last.out.kind = "raise"
                     /\ last.out.type = "Exception"
                     /\ last.out.msg = <<"json decode error : ", <<r.msg, r.pos>>>>

\* C10: with chunk_size >= 1, read_file and read_json on an existing file end
\* as they do with chunk_size = 0.
C10_ChunkSizeIrrelevant ==
    /\ (last.fn = "read_file" /\ file.exists /\ last.args[2] >= 1) =>
          SameOutcome(last.out, read_file(file, path, last.args[1], 0))
    /\ (last.fn = "read_json" /\ file.exists /\ last.args[1] >= 1) =>
          SameOutcome(last.out, read_json(file, path, 0))

\* f(u): 1 for B, 1000^1..1000^5 for kB..PB, 1024^1..1024^5 for KiB..PiB
Factor(u) ==
    IF u.value < 6 THEN [m |-> 1, e10 |-> u.value, e2 |-> 0]
    ELSE [m |-> 1, e10 |-> 0, e2 |-> u.value - 5]

Times(q, f) ==
    IF q.m = 0 THEN q ELSE [m |-> q.m * f.m, e10 |-> q.e10 + f.e10, e2 |-> q.e2 + f.e2]

Over(q, f) ==
    IF q.m = 0 THEN q ELSE [m |-> q.m, e10 |-> q.e10 - f.e10, e2 |-> q.e2 - f.e2]

\* C8: for every unit u and integer s, convert_to_bytes(s, u) = s * f(u) and
\* convert_bytes(b, u) = b / f(u), and so convert_data_size(s, u, u) = s.
C8_ByteConversion ==
    (last.fn \in {"convert_to_bytes", "convert_bytes", "convert_data_size"}
     /\ IsNumber(last.args[1])) =>
        LET s == last.args[1].v
            u == last.args[2]
        IN CASE last.fn = "convert_to_bytes" /\ last.args[3] ->
                   last.out.value.v = Times(s, Factor(u))
             [] last.fn = "convert_bytes" /\ last.args[3] ->
                   last.out.value.v = Over(s, Factor(u))
             [] last.fn = "convert_data_size" /\ last.args[4] /\ u = last.args[3] ->
                   last.out.value.v = s
             [] OTHER -> TRUE

\* the body is a JSON object with a "result" field
HasResult(text) ==
    LET r == decode(text)
    IN /\ r.ok
       /\ r.value.t = "dict"
       /\ \E k \in 1..Len(r.value.v) :
             r.value.v[k][1] = PyStr(<<"r", "e", "s", "u", "l", "t">>)

\* C9: common_request returns (payload, success, message) with success True
\* exactly when the response has status 200 and a JSON body with a `result`
\* field, the payload then being that field; otherwise success is False, the
\* payload is None and the message is not empty.
C9_RequestTriple ==
    last.fn = "common_request" =>
        LET net == last.args[3]
            triple == last.out.value.v
            ok == /\ last.via.verb # ""
                  /\ net.kind = "response"
                  /\ net.status_code = 200
                  /\ HasResult(net.text)
        IN /\ last.out.kind = "return"
           /\ PyEq(triple[2], PyBool(ok))
           /\ ok => PyEq(triple[1], ResultField(decode(net.text)).value)
           /\ ~ok => (PyEq(triple[1], PyNone) /\ Len(triple[3]) > 0)

====
